---- MODULE Spec2Model ----
(***************************************************************************)
(* A model of portfolio/portfolio.py: the Portfolio class that keeps a     *)
(* date-indexed table of share holdings beside a date-indexed table of     *)
(* close prices, mutates the holdings from a date forward, converts cash   *)
(* to shares and back at the close price looked up for a date, and derives *)
(* the value table.                                                        *)
(*                                                                         *)
(* Numbers are binary floating point, as Python's float / numpy.float64    *)
(* are: every arithmetic result is rounded to the nearest value with       *)
(* FloatBits significant bits, ties to even.  A value is kept as the       *)
(* integer count of units of 2^-FracBits (the format's smallest step).     *)
(* A pandas DataFrame is a record [index, columns, cell]: index the set of *)
(* its dates, columns the sequence of its column labels, cell the function *)
(* date -> column -> value.  Only the "Close" attribute of the price table *)
(* is modelled; no method reads any other.                                 *)
(***************************************************************************)
EXTENDS Integers, Sequences, FiniteSets, TLC

\* ------------------------------------------------------------- bounds
\* Significant bits of the floating-point format (53 for a double).
FloatBits == 11
\* The format's smallest step is 2^-FracBits.
FracBits == 6
\* The calendar is the days 1..MaxDate; day 0 precedes it and day
\* MaxDate + 1 follows it.
MaxDate == 4
\* Calls made on one Portfolio in a run.
MaxOps == 2
\* ordinal is called with the numbers 1..MaxOrdinal.
MaxOrdinal == 125

\* ------------------------------------------------------------- floats
RECURSIVE Pow2(_)
Pow2(k) == IF k <= 0 THEN 1 ELSE 2 * Pow2(k - 1)

RECURSIVE BitLen(_)
BitLen(n) == IF n <= 0 THEN 0 ELSE 1 + BitLen(n \div 2)

\* numpy.nan: a value outside the range of every number of the model.
NaN == 0 - Pow2(30)

Abs(x) == IF x < 0 THEN 0 - x ELSE x
Sign(x) == IF x < 0 THEN 0 - 1 ELSE 1

\* The integer nearest to num / den, a tie going to the even one.
RoundHalfEven(num, den) ==
  LET q == num \div den
      r == num % den
  IN  IF 2 * r > den \/ (2 * r = den /\ q % 2 = 1) THEN q + 1 ELSE q

\* num / den (in units, both >= 0) rounded to FloatBits significant bits.
RoundSig(num, den) ==
  LET bits == BitLen(num \div den)
      shift == IF bits > FloatBits THEN bits - FloatBits ELSE 0
  IN  RoundHalfEven(num, den * Pow2(shift)) * Pow2(shift)

\* The float of the integer i, of i + 1/2, and of i plus the smallest step.
Num(i) == i * Pow2(FracBits)
NumHalf(i) == i * Pow2(FracBits) + Pow2(FracBits - 1)
NumFine(i) == i * Pow2(FracBits) + 1

FAdd(a, b) ==
  IF a = NaN \/ b = NaN THEN NaN ELSE Sign(a + b) * RoundSig(Abs(a + b), 1)
FSub(a, b) ==
  IF a = NaN \/ b = NaN THEN NaN ELSE Sign(a - b) * RoundSig(Abs(a - b), 1)
FMul(a, b) ==
  IF a = NaN \/ b = NaN THEN NaN
  ELSE Sign(a) * Sign(b) * RoundSig(Abs(a) * Abs(b), Pow2(FracBits))
FDiv(a, b) ==
  IF a = NaN \/ b = NaN THEN NaN
  ELSE Sign(a) * Sign(b) * RoundSig(Abs(a) * Pow2(FracBits), Abs(b))

\* ------------------------------------------------------------- universe
\* Ticker symbols.  GOOG and MSFT are held from the start (the symbols of
\* the test fixture); T is the symbol that add_symbol introduces.
HeldSymbols == <<"GOOG", "MSFT">>
Symbols == {"GOOG", "MSFT", "T"}
\* Column labels in sorted order (the order of a union of column indexes).
SymbolOrder == <<"GOOG", "MSFT", "T">>

\* Business days of the calendar: every third day is not one.
TradingDays == {d \in 1..MaxDate : d % 3 # 0}
\* Dates a caller may pass: the calendar, the day before it, the day after.
DateInputs == 0..(MaxDate + 1)

\* The close price the market has for a symbol on a trading day.
MarketClose(s, d) ==
  CASE s = "GOOG" -> Num(d + 2)
    [] s = "MSFT" -> Num(2 * d + 3)
    [] OTHER      -> Num(d + 1)

\* Quantities a caller may pass: shares or dollars.
Quantities == {Num(0 - 3), Num(0), Num(5)}
\* Amounts a caller may ask a conversion for.
Amounts == {Num(3), Num(5), NumFine(27)}

Range(seq) == {seq[i] : i \in DOMAIN seq}

\* ------------------------------------------------------------- tables
DataFrame(index, columns, cell) ==
  [index |-> index, columns |-> columns, cell |-> cell]

\* index.get_loc(date, method="ffill"): the last date of the index at or
\* before date; 0 - 1 when there is none (KeyError).
GetLocFfill(index, date) ==
  LET at == {d \in index : d <= date}
  IN  IF at = {} THEN 0 - 1 ELSE CHOOSE d \in at : \A e \in at : e <= d

\* The table the provider returns for the columns over [start, end].
DataReader(columns, start, end) ==
  LET idx == {d \in TradingDays : start <= d /\ d <= end}
  IN  DataFrame(idx, columns,
        [d \in idx |-> [s \in Range(columns) |-> MarketClose(s, d)]])

\* holdings and data are the Portfolio's two tables.  last is the call
\* made last and what it raised or returned; before holds the two tables
\* as they were when that call began, the call made before it, and the
\* holdings as they were when that earlier call began; ops counts calls.
\* report is the Report made of the portfolio, mail what its email method
\* did, exported the file that export wrote.  store is the HDF file of the
\* portfolio and scope the place of a run in "with Portfolio() as pf:".
VARIABLES holdings, data, last, before, ops, report, mail, exported,
          store, scope

vars == <<holdings, data, last, before, ops, report, mail, exported,
          store, scope>>

\* ------------------------------------------------------------- pandas
\* df.reindex(index, method="ffill"): each date of the new index takes the
\* row of the last date of df at or before it, an all-NaN row when none.
Reindex(df, index) ==
  DataFrame(index, df.columns,
    [d \in index |->
      LET at == GetLocFfill(df.index, d)
      IN  IF at < 0 THEN [s \in Range(df.columns) |-> NaN] ELSE df.cell[at]])

\* df.dropna(): the rows without a NaN.
DropNa(df) ==
  LET keep == {d \in df.index : \A s \in Range(df.columns) : df.cell[d][s] # NaN}
  IN  DataFrame(keep, df.columns, [d \in keep |-> df.cell[d]])

\* df.fillna(method="bfill"): a NaN takes the next value below it in its
\* column that is not NaN, and stays NaN when there is none.
FillnaBfill(df) ==
  DataFrame(df.index, df.columns,
    [d \in df.index |-> [s \in Range(df.columns) |->
      LET later == {e \in df.index : e >= d /\ df.cell[e][s] # NaN}
      IN  IF later = {} THEN NaN
          ELSE df.cell[CHOOSE e \in later : \A f \in later : e <= f][s]]])

\* df.loc[date:, symbol] = column for an existing column: the rows from
\* date on take their value of column (a value for each date of df).
SetFrom(df, symbol, date, column) ==
  DataFrame(df.index, df.columns,
    [d \in df.index |-> [s \in Range(df.columns) |->
      IF s = symbol /\ d >= date THEN column[d] ELSE df.cell[d][s]]])

\* df[symbol] + amount, df[symbol] - amount, and amount on every date.
Plus(df, symbol, amount) ==
  [d \in df.index |-> FAdd(df.cell[d][symbol], amount)]
Minus(df, symbol, amount) ==
  [d \in df.index |-> FSub(df.cell[d][symbol], amount)]
Scalar(df, amount) == [d \in df.index |-> amount]

\* The new column written on the row of date alone.
SetNewColumnOnDateOnly(df, symbol, date, quantity) ==
  DataFrame(df.index, Append(df.columns, symbol),
    [d \in df.index |-> [s \in Range(df.columns) \cup {symbol} |->
      IF s = symbol THEN (IF d = date THEN quantity ELSE NaN)
      ELSE df.cell[d][s]]])

\* df.loc[date:, symbol] = quantity for a column df does not have: the
\* column is appended, NaN on the rows before date.
SetNewColumn(df, symbol, date, quantity) ==
  DataFrame(df.index, Append(df.columns, symbol),
    [d \in df.index |-> [s \in Range(df.columns) \cup {symbol} |->
      IF s = symbol THEN (IF d >= date THEN quantity ELSE NaN)
      ELSE df.cell[d][s]]])

\* The non-NaN values of a column, and df.idxmin() / df.idxmax() of it:
\* the first date holding the column's least / greatest value.
Valued(df, s) == {d \in df.index : df.cell[d][s] # NaN}
IdxMin(df, s) ==
  LET least == {d \in Valued(df, s) :
                  \A e \in Valued(df, s) : df.cell[d][s] <= df.cell[e][s]}
  IN  CHOOSE d \in least : \A e \in least : d <= e
IdxMax(df, s) ==
  LET most == {d \in Valued(df, s) :
                 \A e \in Valued(df, s) : df.cell[d][s] >= df.cell[e][s]}
  IN  CHOOSE d \in most : \A e \in most : d <= e
SetMin(S) == CHOOSE d \in S : \A e \in S : d <= e
SetMax(S) == CHOOSE d \in S : \A e \in S : d >= e

\* ------------------------------------------------------------- results
\* What a call does: the exception it raises ("none" when it returns), the
\* tables it leaves, and the number it returns (NaN when it returns none).
Outcome(raised, h, dt, ret) ==
  [raised |-> raised, holdings |-> h, data |-> dt, ret |-> ret]

Call(op, symbol, quantity, date, out) ==
  [op |-> op, symbol |-> symbol, quantity |-> quantity, date |-> date,
   raised |-> out.raised, ret |-> out.ret]

NoCall == [op |-> "__init__", symbol |-> "", quantity |-> NaN, date |-> 0,
           raised |-> "none", ret |-> NaN]

\* return self.holdings.loc[date]: KeyError when date is not in the index.
ReturnLoc(h, dt, date) ==
  IF date \in h.index THEN Outcome("none", h, dt, NaN)
  ELSE Outcome("KeyError", h, dt, NaN)

\* ------------------------------------------------------------- Portfolio
\* Portfolio.__init__ for a portfolio given in memory (path=None): the
\* prices are fetched again when the clock is past 16:00, and the holdings
\* are conformed to the price index.
Construct(dataIn, holdingsIn, after16) ==
  LET dt == IF after16 THEN DataReader(holdingsIn.columns, 1, MaxDate)
            ELSE dataIn
  IN  [data |-> dt, holdings |-> DropNa(Reindex(holdingsIn, dt.index))]

\* to_shares at the close of the last price date of the table.
ToSharesAtLastClose(h, dt, symbol, cash, date) ==
  LET at == GetLocFfill(dt.index, date)
  IN  IF at < 0 \/ symbol \notin Range(dt.columns)
      THEN Outcome("KeyError", h, dt, NaN)
      ELSE Outcome("none", h, dt,
                   FDiv(cash, dt.cell[SetMax(dt.index)][symbol]))

\* to_shares at the close of the price date nearest to date (the lookup of
\* Report.__init__), the later one when two are as near.
ToSharesAtNearestClose(h, dt, symbol, cash, date) ==
  LET at == GetLocFfill(dt.index, date)
      from == {d \in dt.index : d >= date}
      near == IF from # {} /\ SetMin(from) - date <= date - at
              THEN SetMin(from) ELSE at
  IN  IF at < 0 \/ symbol \notin Range(dt.columns)
      THEN Outcome("KeyError", h, dt, NaN)
      ELSE Outcome("none", h, dt, FDiv(cash, dt.cell[near][symbol]))

\* Portfolio.to_shares: cash / the close of the last price date <= date.
to_shares(h, dt, symbol, cash, date) ==
  LET at == GetLocFfill(dt.index, date)
  IN  IF at < 0 \/ symbol \notin Range(dt.columns)
      THEN Outcome("KeyError", h, dt, NaN)
      ELSE Outcome("none", h, dt, FDiv(cash, dt.cell[at][symbol]))

\* to_cash at the close of the first price date from date on.
ToCashAtNextClose(h, dt, symbol, shares, date) ==
  LET from == {d \in dt.index : d >= date}
  IN  IF symbol \notin Range(dt.columns) \/ from = {}
      THEN Outcome("KeyError", h, dt, NaN)
      ELSE Outcome("none", h, dt,
                   FMul(shares, dt.cell[SetMin(from)][symbol]))

\* Portfolio.to_cash: shares * the close of the last price date <= date.
to_cash(h, dt, symbol, shares, date) ==
  LET at == GetLocFfill(dt.index, date)
  IN  IF symbol \notin Range(dt.columns) \/ at < 0
      THEN Outcome("KeyError", h, dt, NaN)
      ELSE Outcome("none", h, dt, FMul(shares, dt.cell[at][symbol]))

\* add_shares changing the row of date alone.
AddSharesOnDateOnly(h, dt, symbol, quantity, date) ==
  IF symbol \notin Range(h.columns) THEN Outcome("KeyError", h, dt, NaN)
  ELSE IF quantity <= 0 THEN Outcome("ValueError", h, dt, NaN)
  ELSE ReturnLoc(
         DataFrame(h.index, h.columns,
           [d \in h.index |-> [s \in Range(h.columns) |->
             IF s = symbol /\ d = date THEN FAdd(h.cell[d][s], quantity)
             ELSE h.cell[d][s]]]),
         dt, date)

\* Portfolio.add_shares
add_shares(h, dt, symbol, quantity, date) ==
  IF symbol \notin Range(h.columns) THEN Outcome("KeyError", h, dt, NaN)
  ELSE IF quantity <= 0 THEN Outcome("ValueError", h, dt, NaN)
  ELSE ReturnLoc(SetFrom(h, symbol, date, Plus(h, symbol, quantity)),
                 dt, date)

\* remove_shares changing the rows after date, not the row of date.
RemoveSharesAfterDate(h, dt, symbol, quantity, date) ==
  IF symbol \notin Range(h.columns) THEN Outcome("KeyError", h, dt, NaN)
  ELSE IF quantity <= 0 THEN Outcome("ValueError", h, dt, NaN)
  ELSE ReturnLoc(SetFrom(h, symbol, date + 1, Minus(h, symbol, quantity)),
                 dt, date)

\* remove_shares changing the rows before date too.
RemoveSharesOnEveryDate(h, dt, symbol, quantity, date) ==
  IF symbol \notin Range(h.columns) THEN Outcome("KeyError", h, dt, NaN)
  ELSE IF quantity <= 0 THEN Outcome("ValueError", h, dt, NaN)
  ELSE ReturnLoc(SetFrom(h, symbol, 0, Minus(h, symbol, quantity)),
                 dt, date)

\* Portfolio.remove_shares
remove_shares(h, dt, symbol, quantity, date) ==
  IF symbol \notin Range(h.columns) THEN Outcome("KeyError", h, dt, NaN)
  ELSE IF quantity <= 0 THEN Outcome("ValueError", h, dt, NaN)
  ELSE ReturnLoc(SetFrom(h, symbol, date, Minus(h, symbol, quantity)),
                 dt, date)

\* set_shares leaving alone the rows that differ from the row of date.
SetSharesWhereEqual(h, dt, symbol, quantity, date) ==
  IF symbol \notin Range(h.columns) THEN Outcome("KeyError", h, dt, NaN)
  ELSE IF quantity <= 0 THEN Outcome("ValueError", h, dt, NaN)
  ELSE ReturnLoc(
         DataFrame(h.index, h.columns,
           [d \in h.index |-> [s \in Range(h.columns) |->
             IF s = symbol /\ d >= date /\ date \in h.index
                /\ h.cell[d][s] = h.cell[date][s]
             THEN quantity ELSE h.cell[d][s]]]),
         dt, date)

\* Portfolio.set_shares
set_shares(h, dt, symbol, quantity, date) ==
  IF symbol \notin Range(h.columns) THEN Outcome("KeyError", h, dt, NaN)
  ELSE IF quantity <= 0 THEN Outcome("ValueError", h, dt, NaN)
  ELSE ReturnLoc(SetFrom(h, symbol, date, Scalar(h, quantity)), dt, date)

\* Portfolio.add_cash
add_cash(h, dt, symbol, quantity, date) ==
  IF symbol \notin Range(h.columns) THEN Outcome("KeyError", h, dt, NaN)
  ELSE IF quantity <= 0 THEN Outcome("ValueError", h, dt, NaN)
  ELSE LET shares == to_shares(h, dt, symbol, quantity, date)
       IN  IF shares.raised # "none" THEN shares
           ELSE ReturnLoc(
                  SetFrom(h, symbol, date, Plus(h, symbol, shares.ret)),
                  dt, date)

\* remove_cash writing the column of a symbol the ledger does not hold
\* (setting with enlargement) instead of failing to read it.
RemoveCashEnlarging(h, dt, symbol, quantity, date) ==
  LET shares == to_shares(h, dt, symbol, quantity, date)
  IN  IF shares.raised # "none" THEN shares
      ELSE IF symbol \notin Range(h.columns)
      THEN ReturnLoc(SetNewColumn(h, symbol, date, NaN), dt, date)
      ELSE ReturnLoc(
             SetFrom(h, symbol, date, Minus(h, symbol, shares.ret)),
             dt, date)

\* Portfolio.remove_cash: no check of the symbol or of the quantity; a
\* symbol that is no column of the prices or of the holdings is a KeyError
\* of the lookup.
remove_cash(h, dt, symbol, quantity, date) ==
  LET shares == to_shares(h, dt, symbol, quantity, date)
  IN  IF shares.raised # "none" THEN shares
      ELSE IF symbol \notin Range(h.columns)
      THEN Outcome("KeyError", h, dt, NaN)
      ELSE ReturnLoc(
             SetFrom(h, symbol, date, Minus(h, symbol, shares.ret)),
             dt, date)

\* add_symbol without the check that the symbol is new: the column is
\* written over.
AddSymbolOverwriting(h, dt, symbol, quantity, date, fetch) ==
  IF h.index = {} THEN Outcome("ValueError", h, dt, NaN)
  ELSE LET h2 == IF symbol \in Range(h.columns)
                 THEN SetFrom(h, symbol, date, Scalar(h, quantity))
                 ELSE SetNewColumn(h, symbol, date, quantity)
           cols == {s \in Range(h2.columns) : Valued(h2, s) # {}}
           start == SetMin({IdxMin(h2, s) : s \in cols})
           end == SetMax({IdxMax(h2, s) : s \in cols})
       IN  CASE fetch = "data" ->
                  Outcome("none", h2, DataReader(h2.columns, start, end), NaN)
             [] fetch = "KeyError" -> Outcome("none", h2, dt, NaN)
             [] OTHER -> Outcome(fetch, h2, dt, NaN)

\* Portfolio.add_symbol.  fetch is what the provider does: "data" (it
\* returns a table), "KeyError" (caught) or "RemoteDataError" (not caught).
add_symbol(h, dt, symbol, quantity, date, fetch) ==
  IF symbol \in Range(h.columns) THEN Outcome("KeyError", h, dt, NaN)
  ELSE IF h.index = {} THEN Outcome("ValueError", h, dt, NaN)
  ELSE LET h2 == SetNewColumn(h, symbol, date, quantity)
           cols == {s \in Range(h2.columns) : Valued(h2, s) # {}}
           start == SetMin({IdxMin(h2, s) : s \in cols})
           end == SetMax({IdxMax(h2, s) : s \in cols})
       IN  CASE fetch = "data" ->
                  Outcome("none", h2, DataReader(h2.columns, start, end), NaN)
             [] fetch = "KeyError" -> Outcome("none", h2, dt, NaN)
             [] OTHER -> Outcome(fetch, h2, dt, NaN)

\* Portfolio.value: Close * holdings.fillna(method="bfill") aligned on the
\* union of the two indexes and of the two column sets, and the Total of
\* each row: the sum of its values that are not NaN.
ValueColumns(h, dt) ==
  IF h.columns = dt.columns THEN h.columns
  ELSE SelectSeq(SymbolOrder,
         LAMBDA s : s \in Range(h.columns) \cup Range(dt.columns))

RECURSIVE NanSum(_, _)
NanSum(row, columns) ==
  IF columns = <<>> THEN 0
  ELSE LET n == Len(columns)
           rest == NanSum(row, SubSeq(columns, 1, n - 1))
       IN  IF row[columns[n]] = NaN THEN rest
           ELSE FAdd(rest, row[columns[n]])

\* The value table with missing holdings counted as none: 0 shares.
ValueTableOfRecorded(h, dt) ==
  LET filled == DataFrame(h.index, h.columns,
                  [d \in h.index |-> [s \in Range(h.columns) |->
                     IF h.cell[d][s] = NaN THEN 0 ELSE h.cell[d][s]]])
      columns == ValueColumns(h, dt)
      index == h.index \cup dt.index
      At(df, d, s) ==
        IF d \in df.index /\ s \in Range(df.columns) THEN df.cell[d][s]
        ELSE NaN
      product == [d \in index |-> [s \in Range(columns) |->
                    FMul(At(dt, d, s), At(filled, d, s))]]
  IN  [index |-> index, columns |-> Append(columns, "Total"),
       cell |-> [d \in index |-> [s \in Range(columns) \cup {"Total"} |->
                  IF s = "Total" THEN NanSum(product[d], columns)
                  ELSE product[d][s]]]]

ValueTable(h, dt) ==
  LET filled == FillnaBfill(h)
      columns == ValueColumns(h, dt)
      index == h.index \cup dt.index
      At(df, d, s) ==
        IF d \in df.index /\ s \in Range(df.columns) THEN df.cell[d][s]
        ELSE NaN
      product == [d \in index |-> [s \in Range(columns) |->
                    FMul(At(dt, d, s), At(filled, d, s))]]
  IN  [index |-> index, columns |-> Append(columns, "Total"),
       cell |-> [d \in index |-> [s \in Range(columns) \cup {"Total"} |->
                  IF s = "Total" THEN NanSum(product[d], columns)
                  ELSE product[d][s]]]]

\* ------------------------------------------------------------- strings
\* A string is the sequence of its characters.
Digits == <<"0", "1", "2", "3", "4", "5", "6", "7", "8", "9">>

\* "%d" % n for n >= 0.
RECURSIVE Decimal(_)
Decimal(n) ==
  IF n < 10 THEN <<Digits[n + 1]>>
  ELSE Decimal(n \div 10) \o <<Digits[(n % 10) + 1]>>

Bool(b) == IF b THEN 1 ELSE 0

\* ordinal without the test of the tens digit: the suffix follows the last
\* digit alone.
OrdinalByLastDigit(n) ==
  LET tsnrhtdd == <<"t", "s", "n", "r", "h", "t", "d", "d">>
      k == (Bool(n % 10 < 4) * n) % 10
  IN  Decimal(n) \o <<tsnrhtdd[k + 1], tsnrhtdd[k + 5]>>

\* report.ordinal: "%d%s" % (n, "tsnrhtdd"[k::4]) with
\* k = (n // 10 % 10 != 1) * (n % 10 < 4) * n % 10.
ordinal(n) ==
  LET tsnrhtdd == <<"t", "s", "n", "r", "h", "t", "d", "d">>
      k == (Bool((n \div 10) % 10 # 1) * Bool(n % 10 < 4) * n) % 10
  IN  Decimal(n) \o <<tsnrhtdd[k + 1], tsnrhtdd[k + 5]>>

\* report.superscript: the last two characters of an ordinal wrapped in
\* <sup>; they are letters, and occur nowhere else in it.
superscript(ord) ==
  IF ord = <<>> THEN <<>>
  ELSE SubSeq(ord, 1, Len(ord) - 2) \o <<"<sup>">>
         \o SubSeq(ord, Len(ord) - 1, Len(ord)) \o <<"</sup>">>

\* ------------------------------------------------------------- series
\* numpy.inf, the quotient of a number by zero.
Inf == Pow2(30)

\* The date of the index just before d; 0 - 1 when d is its first.
Prev(index, d) == GetLocFfill(index, d - 1)

\* diff with the two values the other way round.
DiffReversed(index, series) ==
  [d \in index |->
    IF Prev(index, d) < 0 THEN NaN
    ELSE FSub(series[Prev(index, d)], series[d])]

\* Series.diff(): each value less the one before it, NaN on the first.
Diff(index, series) ==
  [d \in index |->
    IF Prev(index, d) < 0 THEN NaN
    ELSE FSub(series[d], series[Prev(index, d)])]

\* Series.pct_change(1): the series with each NaN padded from above,
\* divided by itself shifted one place, less 1.
PctChange(index, series) ==
  LET pad == [d \in index |->
               LET at == {e \in index : e <= d /\ series[e] # NaN}
               IN  IF at = {} THEN NaN ELSE series[SetMax(at)]]
      Over(a, b) ==
        IF a = NaN \/ b = NaN THEN NaN
        ELSE IF b = 0 THEN (IF a = 0 THEN NaN ELSE Sign(a) * Inf)
        ELSE FDiv(a, b)
      Less1(x) == IF x = Inf \/ x = 0 - Inf THEN x ELSE FSub(x, Num(1))
  IN  [d \in index |->
        IF Prev(index, d) < 0 THEN NaN
        ELSE Less1(Over(pad[d], pad[Prev(index, d)]))]

\* x * 100
Times100(x) == IF x = Inf \/ x = 0 - Inf THEN x ELSE FMul(x, Num(100))

\* rank with the default ascending=True: the least value first.
RankAscending(index, series) ==
  [d \in index |->
    IF series[d] = NaN THEN NaN
    ELSE LET valued == {e \in index : series[e] # NaN}
             below == Cardinality({e \in valued : series[e] < series[d]})
             equal == Cardinality({e \in valued : series[e] = series[d]})
         IN  (2 * below + equal + 1) * Pow2(FracBits - 1)]

\* Series.rank(ascending=False): the place of each value among the values
\* that are not NaN, the greatest first; equal values share the average of
\* their places; NaN stays NaN.
Rank(index, series) ==
  [d \in index |->
    IF series[d] = NaN THEN NaN
    ELSE LET valued == {e \in index : series[e] # NaN}
             above == Cardinality({e \in valued : series[e] > series[d]})
             equal == Cardinality({e \in valued : series[e] = series[d]})
         IN  (2 * above + equal + 1) * Pow2(FracBits - 1)]

\* round(x) in the place of int(x): the nearest integer, a half going to
\* the even one.
IntNearest(x) == Sign(x) * RoundHalfEven(Abs(x), Pow2(FracBits))

\* int(x) of a float that is not NaN: its integer part.
IntPart(x) == Sign(x) * (Abs(x) \div Pow2(FracBits))

\* ------------------------------------------------------------- Report
\* A table that is not there.
NoTable == DataFrame({}, <<>>, <<>>)

\* Calendar years: the days 1..MaxDate are one year, the next MaxDate days
\* the year after it.
YearStart(d) == ((d - 1) \div MaxDate) * MaxDate + 1
YearEnd(d) == ((d - 1) \div MaxDate + 1) * MaxDate

\* index.get_loc(date, method="nearest"): the date of the index nearest to
\* date, the later one when two are as near.
GetLocNearest(index, date) ==
  LET near == {d \in index :
                 \A e \in index : Abs(d - date) <= Abs(e - date)}
  IN  SetMax(near)

\* The ranking window of get_overall_report and get_individual_report: the
\* dates of the value table within the year of date.
Window(index, date) ==
  LET start == IF SetMin(index) > YearStart(date) THEN SetMin(index)
               ELSE YearStart(date)
      end == IF SetMax(index) < YearEnd(date) THEN SetMax(index)
             ELSE YearEnd(date)
  IN  [start |-> start, end |-> end,
       dates |-> {d \in index : start <= d /\ d <= end}]

\* int(series.loc[start:end].rank(ascending=False)[date]); NaN stands for
\* the ValueError of int(nan).
RankOf(index, series, date) ==
  LET w == Window(index, date)
      r == Rank(w.dates, [d \in w.dates |-> series[d]])[date]
  IN  IF r = NaN THEN NaN ELSE IntPart(r)

\* int(series.loc[start:end].diff().rank(ascending=False)[date])
RankOfChange(index, series, date) ==
  LET w == Window(index, date)
      r == Rank(w.dates, Diff(w.dates, [d \in w.dates |-> series[d]]))[date]
  IN  IF r = NaN THEN NaN ELSE IntPart(r)

\* The text kept as it is, "1st" too.
KeepText(text) == text

\* "" if text == "1st" else text
Suppress1st(text) == IF text = <<"1", "s", "t">> THEN <<>> ELSE text

\* The dictionary that get_overall_report builds from the Total column and
\* get_individual_report from a symbol's column; raised is "ValueError"
\* when a rank is NaN.
SeriesReport(index, series, date) ==
  LET w == Window(index, date)
      change == RankOfChange(index, series, date)
      rank == RankOf(index, series, date)
  IN  IF change = NaN \/ rank = NaN
      THEN [raised |-> "ValueError", total |-> series[date],
            difference |-> NaN, pct_difference |-> NaN,
            rank_change |-> <<>>, rank_value |-> <<>>,
            rank_change_html |-> <<>>, rank_value_html |-> <<>>,
            start |-> w.start, end |-> w.end, days |-> 0]
      ELSE [raised |-> "none", total |-> series[date],
            difference |-> Diff(index, series)[date],
            pct_difference |-> Times100(PctChange(index, series)[date]),
            rank_change |-> Suppress1st(ordinal(change)),
            rank_value |-> Suppress1st(ordinal(rank)),
            rank_change_html |-> superscript(Suppress1st(ordinal(change))),
            rank_value_html |-> superscript(Suppress1st(ordinal(rank))),
            start |-> w.start, end |-> w.end,
            days |-> Cardinality(w.dates)]

\* A column of a table as a series.
Column(table, s) == [d \in table.index |-> table.cell[d][s]]

\* Report.get_overall_report
get_overall_report(h, dt, date) ==
  LET v == ValueTable(h, dt)
  IN  SeriesReport(v.index, Column(v, "Total"), date)

\* Report.get_individual_report; deleted is TRUE when the symbol's value on
\* the date is 0 and its entry is removed from the report.
get_individual_report(h, dt, date, symbol) ==
  LET v == ValueTable(h, dt)
  IN  [deleted |-> v.cell[date][symbol] = 0,
       data |-> SeriesReport(v.index, Column(v, symbol), date)]

\* The number of dates of an index up to d: the place of d in it.
Place(index, d) == Cardinality({e \in index : e <= d})

\* The dates of an index at the places from..to, counted from 1.
Places(index, from, to) ==
  {d \in index : from <= Place(index, d) /\ Place(index, d) <= to}

\* The table of the symbols over the dates from..to of the value table: a
\* symbol whose values there are all 0 is left out, and Total is the sum
\* of the symbols shown.
TableOver(v, symbols, from, to) ==
  LET table_range == Places(v.index, from, to)
      shown == SelectSeq(symbols,
                 LAMBDA s : \E d \in table_range : v.cell[d][s] # 0)
  IN  DataFrame(table_range, Append(shown, "Total"),
        [d \in table_range |-> [s \in Range(shown) \cup {"Total"} |->
           IF s = "Total" THEN NanSum(v.cell[d], shown)
           ELSE v.cell[d][s]]])

\* The table running through the sixth date after the report's.
ReportTableThroughSixth(h, dt, date, symbols) ==
  LET v == ValueTable(h, dt)
      loc == Place(v.index, date)
  IN  TableOver(v, symbols, loc - 4, loc + 6)

\* Report.get_report_table: value.index[max(loc - 4, 0) : loc + 6], the
\* slice ending before its end, of the symbols the report has kept.
get_report_table(h, dt, date, symbols) ==
  LET v == ValueTable(h, dt)
      loc == Place(v.index, date)
  IN  TableOver(v, symbols, loc - 4, loc + 5)

\* df.drop_duplicates(): the rows that equal no row above them.
DropDuplicates(df) ==
  LET keep == {d \in df.index :
                 \A e \in df.index : e < d => df.cell[e] # df.cell[d]}
  IN  DataFrame(keep, df.columns, [d \in keep |-> df.cell[d]])

\* The week: 7 days of the year of 365 are WeekDays days of the calendar,
\* the last business day before the day that is none is its Friday.
WeekDays == 3
IsFriday(d) == d % WeekDays = 2

\* df.loc[start:end]: the rows of the dates from start to end.
Slice(df, start, end) ==
  LET idx == {d \in df.index : start <= d /\ d <= end}
  IN  DataFrame(idx, df.columns, [d \in idx |-> df.cell[d]])

\* df.diff(): the diff of each column.
DiffFrame(df) ==
  DataFrame(df.index, df.columns,
    [d \in df.index |-> [s \in Range(df.columns) |->
       Diff(df.index, [e \in df.index |-> df.cell[e][s]])[d]]])

\* Series.sum(): the sum of the values that are not NaN, in the order of
\* the index; inf when an inf is among them, NaN when both infs are.
RECURSIVE SeriesSum(_, _)
SeriesSum(index, series) ==
  IF index = {} THEN 0
  ELSE LET d == SetMax(index)
           rest == SeriesSum(index \ {d}, series)
           x == series[d]
       IN  CASE x = NaN -> rest
             [] rest = NaN -> NaN
             [] x \in {Inf, 0 - Inf} /\ rest \in {Inf, 0 - Inf} ->
                  (IF x = rest THEN x ELSE NaN)
             [] x \in {Inf, 0 - Inf} -> x
             [] rest \in {Inf, 0 - Inf} -> rest
             [] OTHER -> FAdd(rest, x)

\* The periodic data of a report made on no Friday: there is none.
NoPeriodic ==
  [made |-> FALSE, start |-> 0, end |-> 0, difference |-> NaN,
   pct_difference |-> NaN, has_changes |-> FALSE, dates |-> {},
   changes |-> {}]

\* Report.get_periodic_report("7d"): the sums of the differences of Total
\* over the week that ends on date, and the changes of the share counts:
\* holdings.loc[start:end].drop_duplicates().diff().dropna(), of which
\* each row is listed with its entries that are not 0.
get_periodic_report(h, dt, date) ==
  LET v == ValueTable(h, dt)
      start == date - WeekDays
      window == {d \in v.index : start <= d /\ d <= date}
      total == [d \in window |-> v.cell[d]["Total"]]
      range == DropNa(DiffFrame(DropDuplicates(Slice(h, start, date))))
      any == \E d \in range.index, s \in Range(range.columns) :
               range.cell[d][s] # 0
  IN  [made |-> TRUE, start |-> start, end |-> date,
       difference |-> SeriesSum(window, Diff(window, total)),
       pct_difference |->
         Times100(SeriesSum(window, PctChange(window, total))),
       has_changes |-> any,
       dates |-> IF any THEN range.index ELSE {},
       changes |-> IF any
                   THEN {<<d, s, range.cell[d][s]>> :
                           d \in range.index, s \in Range(range.columns)}
                          \ {<<d, s, 0>> :
                                d \in range.index, s \in Range(range.columns)}
                   ELSE {}]

\* The configurations a Report is given: none, a ConfigParser without the
\* email section, one whose email section lacks an option, a complete one.
Configs == {"None", "no section", "no option", "complete"}

\* A Report that has not been made.
NoReport ==
  [raised |-> "not made", date |-> 0, has_config |-> FALSE,
   config |-> "None", overall |-> <<>>, symbols |-> <<>>,
   table |-> NoTable, periodic |-> NoPeriodic, chart_file |-> FALSE]

\* Report.__init__: self.config is set only when date is no price date;
\* then the overall report, the report of each held symbol, the table of
\* the symbols whose entry was kept and, on a Friday, the periodic report
\* of the week and the file of the chart.
Report(h, dt, config, date) ==
  LET on == IF date \in dt.index THEN date
            ELSE GetLocNearest(dt.index, date)
      overall == get_overall_report(h, dt, on)
      each == [s \in Range(h.columns) |-> get_individual_report(h, dt, on, s)]
      failed == overall.raised # "none"
                  \/ \E s \in Range(h.columns) :
                       ~each[s].deleted /\ each[s].data.raised # "none"
      kept == SelectSeq(h.columns, LAMBDA s : ~each[s].deleted)
  IN  [raised |-> IF failed THEN "ValueError" ELSE "none",
       date |-> on, has_config |-> date \notin dt.index, config |-> config,
       overall |-> overall, symbols |-> each,
       table |-> IF failed THEN NoTable
                 ELSE get_report_table(h, dt, on, kept),
       periodic |-> IF failed \/ ~IsFriday(on) THEN NoPeriodic
                    ELSE get_periodic_report(h, dt, on),
       chart_file |-> ~failed /\ IsFriday(on)]

\* What Report.email did: what it raised, what it returned, and whether a
\* message went to the SMTP server.
Mail(raised, ret, sent) == [raised |-> raised, ret |-> ret, sent |-> sent]
NoMail == Mail("not called", FALSE, FALSE)

\* Report.email.  smtp is what the server does: "ok" or the exception it
\* raises.
email(rep, test, smtp) ==
  IF ~rep.has_config THEN Mail("AttributeError", FALSE, FALSE)
  ELSE IF rep.config = "None" THEN Mail("none", FALSE, FALSE)
  ELSE IF rep.config # "complete" THEN Mail("none", FALSE, FALSE)
  ELSE IF test THEN Mail("none", FALSE, FALSE)
  ELSE IF smtp # "ok" THEN Mail(smtp, FALSE, FALSE)
  ELSE Mail("none", TRUE, TRUE)

\* What Portfolio.export wrote: the kind of file and the holdings in it.
NoExport == [file |-> "none", holdings |-> DataFrame({}, <<>>, <<>>)]

\* Portfolio.export: the extension of filename selects the file written.
export(h, dt, extension) ==
  IF extension \in {".csv", ".xlsx"}
  THEN [file |-> extension, holdings |-> DropDuplicates(h)]
  ELSE NoExport

\* ------------------------------------------------------------- storage
\* The HDF file: the tables under its keys /holdings and /data (has_data
\* tells whether it has the key /data), the number of times it was written
\* to, and the two tables as they were read from it last.
Store(h, dt, has_data, writes, loaded) ==
  [holdings |-> h, data |-> dt, has_data |-> has_data, writes |-> writes,
   loaded |-> loaded]
NoStore ==
  Store(NoTable, NoTable, FALSE, 0, [holdings |-> NoTable, data |-> NoTable])

\* The place of a run in its with statement ("none" when the portfolio was
\* given in memory), what the price provider did when the constructor
\* asked it ("not asked" when it did not), the day and the side of 16:00
\* that the constructor read from the clock, whether it took the branch
\* that fetches the prices again, and the exception that the with
\* statement raises to its caller ("none" when it raises nothing).
Scope(at, fetch, today, after16, refresh, raised) ==
  [at |-> at, fetch |-> fetch, today |-> today, after16 |-> after16,
   refresh |-> refresh, raised |-> raised]
NoScope == Scope("none", "not asked", 0, FALSE, FALSE, "none")

\* Portfolio.__init__ with a path: the tables are read from the file, the
\* prices fetched when the file has none, and fetched again when they end
\* before yesterday and yesterday was a business day, or when the clock is
\* past 16:00.  fetch is what the provider does: "data" or the exception
\* it raises.
ConstructFromStore(st, today, after16, fetch) ==
  LET cached == IF st.has_data THEN st.data
                ELSE DataReader(st.holdings.columns, 0, today)
      yesterday == today - 1
      refresh == \/ /\ SetMax(cached.index) < yesterday
                    /\ yesterday % 3 # 0
                 \/ after16
      asked == ~st.has_data \/ refresh
      dt == IF refresh THEN DataReader(st.holdings.columns, 1, today)
            ELSE cached
  IN  IF asked /\ fetch # "data"
      THEN [raised |-> fetch, asked |-> asked, refresh |-> refresh,
            holdings |-> NoTable, data |-> NoTable]
      ELSE [raised |-> "none", asked |-> asked, refresh |-> refresh,
            holdings |-> DropNa(Reindex(st.holdings, dt.index)),
            data |-> dt]

\* __exit__ writing only when a table differs from what was loaded.
ExitSkippingUnchanged(st, h, dt, type) ==
  [store |-> IF h = st.loaded.holdings /\ dt = st.loaded.data THEN st
             ELSE Store(h, dt, TRUE, st.writes + 1, st.loaded),
   suppress |-> FALSE]

\* __exit__ writing only when the body raised nothing.
ExitOnlyOnSuccess(st, h, dt, type) ==
  [store |-> IF type # "none" THEN st
             ELSE Store(h, dt, TRUE, st.writes + 1, st.loaded),
   suppress |-> FALSE]

\* Portfolio.__exit__(type, value, traceback): both tables are written to
\* the file, whatever type is (the exception of the body, "none" when the
\* body returned); it returns None, so the exception is not suppressed.
exit(st, h, dt, type) ==
  [store |-> Store(h, dt, TRUE, st.writes + 1, st.loaded),
   suppress |-> FALSE]

\* ------------------------------------------------------------- the run
\* The holdings a portfolio is made from: g shares of GOOG and m of MSFT
\* on every trading day from start on (tests/test_portfolio.py builds its
\* sample the same way, from random numbers near 10).
InputHoldings(start, g, m) ==
  LET idx == {d \in TradingDays : d >= start}
  IN  DataFrame(idx, HeldSymbols,
        [d \in idx |-> [s \in Range(HeldSymbols) |->
           IF s = "GOOG" THEN g ELSE m]])

\* The portfolios a run starts from: the first day of the holdings, the
\* shares of GOOG and of MSFT, and the columns of the price table given.
InitialPortfolios ==
  {<<1, Num(10), Num(10), HeldSymbols>>,
   <<1, NumFine(27), NumHalf(2), HeldSymbols>>,
   <<2, Num(10), NumHalf(3), HeldSymbols>>,
   <<2, NumHalf(3), Num(10), SymbolOrder>>}

Init ==
  \E in \in InitialPortfolios, after16 \in BOOLEAN :
    LET pf == Construct(DataReader(in[4], 1, MaxDate),
                        InputHoldings(in[1], in[2], in[3]), after16)
    IN  /\ holdings = pf.holdings
        /\ data = pf.data
        /\ last = NoCall
        /\ before = [holdings |-> pf.holdings, data |-> pf.data,
                     call |-> NoCall, prior |-> pf.holdings]
        /\ ops = 0
        /\ report = NoReport
        /\ mail = NoMail
        /\ exported = NoExport
        /\ store = NoStore
        /\ scope = NoScope

\* No caller in the repository catches what a Portfolio method raises
\* (cli.update, _Interactive, app.main): a call that raises ends the run.
Running == last.raised = "none" /\ ops < MaxOps

Apply(op, symbol, quantity, date, out) ==
  /\ Running
  /\ holdings' = out.holdings
  /\ data' = out.data
  /\ last' = Call(op, symbol, quantity, date, out)
  /\ before' = [holdings |-> holdings, data |-> data,
                 call |-> last, prior |-> before.holdings]
  /\ ops' = ops + 1
  /\ UNCHANGED <<report, mail, exported, store, scope>>

AddShares ==
  \E s \in Symbols, q \in Quantities, d \in DateInputs :
    Apply("add_shares", s, q, d, add_shares(holdings, data, s, q, d))

RemoveShares ==
  \E s \in Symbols, q \in Quantities, d \in DateInputs :
    Apply("remove_shares", s, q, d, remove_shares(holdings, data, s, q, d))

SetShares ==
  \E s \in Symbols, q \in Quantities, d \in DateInputs :
    Apply("set_shares", s, q, d, set_shares(holdings, data, s, q, d))

AddCash ==
  \E s \in Symbols, q \in Quantities, d \in DateInputs :
    Apply("add_cash", s, q, d, add_cash(holdings, data, s, q, d))

RemoveCash ==
  \E s \in Symbols, q \in Quantities, d \in DateInputs :
    Apply("remove_cash", s, q, d, remove_cash(holdings, data, s, q, d))

AddSymbol ==
  \E s \in Symbols, q \in Quantities, d \in DateInputs,
     fetch \in {"data", "KeyError", "RemoteDataError"} :
    Apply("add_symbol", s, q, d, add_symbol(holdings, data, s, q, d, fetch))

\* The amounts a conversion is called with: a caller's, or what the
\* conversion the other way has just returned.
Returned(op) ==
  IF last.op = op /\ last.raised = "none" THEN {last.ret} ELSE {}

ToCash ==
  \E s \in Symbols, q \in Amounts \cup Returned("to_shares"),
     d \in DateInputs :
    Apply("to_cash", s, q, d, to_cash(holdings, data, s, q, d))

ToShares ==
  \E s \in Symbols, q \in Amounts \cup Returned("to_cash"),
     d \in DateInputs :
    Apply("to_shares", s, q, d, to_shares(holdings, data, s, q, d))

Next ==
  \/ AddShares
  \/ RemoveShares
  \/ SetShares
  \/ AddCash
  \/ RemoveCash
  \/ AddSymbol

\* The run of the calls that change the ledger.
Spec == Init /\ [][Next]_vars

\* to_cash and to_shares change neither table: their runs are checked
\* apart, from the same portfolios.
NextConvert ==
  \/ ToCash
  \/ ToShares

SpecConvert == Init /\ [][NextConvert]_vars

\* ------------------------------------------------------------- reports
\* pd.date_range(start, periods=n, freq="b"): the first n business days
\* from start on.
DateRangeB(start, n) ==
  {d \in start..(start + 2 * n) :
     d % 3 # 0 /\ Cardinality({e \in start..d : e % 3 # 0}) <= n}

\* A table given in memory: on the k-th date of index the column s holds
\* Num(rows[s][k]).
TestFrame(index, columns, rows) ==
  DataFrame(index, columns,
    [d \in index |-> [s \in Range(columns) |->
       Num(rows[s][Place(index, d)])]])

\* The portfolios a report is made of, each given in memory as the tests
\* give theirs: the price table and the holdings table.
\*  1  one symbol at 100, 101, 99, 102, 105 on five business days, 10
\*     shares of it on each;
\*  2  two symbols whose values repeat, and with them the totals;
\*  3  a total that grows 32-fold in a day and falls back;
\*  4  holdings that begin after the prices do, and return on their third
\*     date to what they were on their first;
\*  5  one share of a symbol that gains 1 a day over twelve business days;
\*  6  holdings that change on the fifth date and change back on the
\*     sixth, a Friday.
ReportPortfolios ==
  {[data |-> TestFrame(DateRangeB(1, 5), <<"TEST">>,
               [TEST |-> <<100, 101, 99, 102, 105>>]),
    holdings |-> TestFrame(DateRangeB(1, 5), <<"TEST">>,
               [TEST |-> <<10, 10, 10, 10, 10>>])],
   [data |-> TestFrame(DateRangeB(1, 6), HeldSymbols,
               [GOOG |-> <<5, 5, 3, 5, 7, 9>>,
                MSFT |-> <<7, 7, 7, 7, 7, 7>>]),
    holdings |-> TestFrame(DateRangeB(1, 6), HeldSymbols,
               [GOOG |-> <<1, 1, 1, 1, 1, 1>>,
                MSFT |-> <<1, 1, 1, 1, 1, 1>>])],
   [data |-> TestFrame(DateRangeB(1, 5), <<"TEST">>,
               [TEST |-> <<3, 98, 7, 7, 14>>]),
    holdings |-> TestFrame(DateRangeB(1, 5), <<"TEST">>,
               [TEST |-> <<1, 1, 1, 2, 2>>])],
   [data |-> TestFrame(DateRangeB(1, 5), HeldSymbols,
               [GOOG |-> <<4, 5, 6, 7, 8>>, MSFT |-> <<9, 7, 5, 4, 2>>]),
    holdings |-> TestFrame(DateRangeB(2, 4), HeldSymbols,
               [GOOG |-> <<10, 15, 10, 10>>, MSFT |-> <<0, 0, 0, 3>>])],
   [data |-> TestFrame(DateRangeB(1, 12), <<"TEST">>,
               [TEST |-> <<20, 21, 22, 23, 24, 25, 26, 27, 28, 29, 30, 31>>]),
    holdings |-> TestFrame(DateRangeB(1, 12), <<"TEST">>,
               [TEST |-> <<1, 1, 1, 1, 1, 1, 1, 1, 1, 1, 1, 1>>])],
   [data |-> TestFrame(DateRangeB(1, 6), HeldSymbols,
               [GOOG |-> <<4, 5, 6, 7, 8, 9>>,
                MSFT |-> <<9, 7, 5, 4, 2, 1>>]),
    holdings |-> TestFrame(DateRangeB(1, 6), HeldSymbols,
               [GOOG |-> <<10, 10, 10, 10, 15, 10>>,
                MSFT |-> <<3, 3, 3, 3, 3, 3>>])]}

InitReport ==
  \E in \in ReportPortfolios, after16 \in BOOLEAN :
    LET pf == Construct(in.data, in.holdings, after16)
    IN  /\ holdings = pf.holdings
        /\ data = pf.data
        /\ last = NoCall
        /\ before = [holdings |-> pf.holdings, data |-> pf.data,
                     call |-> NoCall, prior |-> pf.holdings]
        /\ ops = 0
        /\ report = NoReport
        /\ mail = NoMail
        /\ exported = NoExport
        /\ store = NoStore
        /\ scope = NoScope

\* The dates a report is asked for: the days of two years, and the day
\* before them.
ReportDates == 0..(2 * MaxDate)

\* cli.report: the Report of a date is made, emailed when asked, and the
\* holdings are exported when asked; nothing that is raised is caught.
MakeReport ==
  \E config \in Configs, date \in ReportDates :
    /\ report.raised = "not made"
    /\ exported.file = "none"
    /\ report' = Report(holdings, data, config, date)
    /\ UNCHANGED <<holdings, data, last, before, ops, mail, exported,
                   store, scope>>

Email ==
  \E test \in BOOLEAN, smtp \in {"ok", "SMTPException"} :
    /\ report.raised = "none"
    /\ mail.raised = "not called"
    /\ exported.file = "none"
    /\ mail' = email(report, test, smtp)
    /\ UNCHANGED <<holdings, data, last, before, ops, report, exported,
                   store, scope>>

Export ==
  \E extension \in {".csv", ".xlsx", ".txt"} :
    /\ report.raised \in {"not made", "none"}
    /\ mail.raised \in {"not called", "none"}
    /\ exported.file = "none"
    /\ exported' = export(holdings, data, extension)
    /\ UNCHANGED <<holdings, data, last, before, ops, report, mail,
                   store, scope>>

NextReport ==
  \/ MakeReport
  \/ Email
  \/ Export

SpecReport == InitReport /\ [][NextReport]_vars

\* ------------------------------------------------------------- scoped runs
\* The files a run finds: written by an earlier run that held 10 shares of
\* each symbol from the first day on, with prices to the second day or to
\* the last, or with holdings from the second day on and no prices; or by
\* a run that added the symbol T on the second day (_Interactive.add), so
\* that its column is NaN on the first.
StoredFiles ==
  {Store(InputHoldings(1, Num(10), Num(10)), DataReader(HeldSymbols, 1, 2),
         TRUE, 0, [holdings |-> NoTable, data |-> NoTable]),
   Store(InputHoldings(1, Num(10), NumHalf(3)),
         DataReader(HeldSymbols, 1, MaxDate),
         TRUE, 0, [holdings |-> NoTable, data |-> NoTable]),
   Store(InputHoldings(2, NumHalf(3), Num(10)), NoTable,
         FALSE, 0, [holdings |-> NoTable, data |-> NoTable]),
   Store(SetNewColumn(InputHoldings(1, Num(10), Num(10)), "T", 2, Num(5)),
         DataReader(SymbolOrder, 1, 2),
         TRUE, 0, [holdings |-> NoTable, data |-> NoTable])}

InitStore ==
  /\ store \in StoredFiles
  /\ scope = Scope("before", "not asked", 0, FALSE, FALSE, "none")
  /\ holdings = NoTable
  /\ data = NoTable
  /\ last = NoCall
  /\ before = [holdings |-> NoTable, data |-> NoTable,
               call |-> NoCall, prior |-> NoTable]
  /\ ops = 0
  /\ report = NoReport
  /\ mail = NoMail
  /\ exported = NoExport

\* The day a run is made on: the last day of the calendar or the day after.
Todays == {MaxDate, MaxDate + 1}

\* app.main: "with Portfolio() as portfolio:" makes the portfolio from the
\* file; when the constructor raises, the body and __exit__ do not run.
Enter ==
  \E today \in Todays, after16 \in BOOLEAN,
     fetch \in {"data", "RemoteDataError"} :
    LET pf == ConstructFromStore(store, today, after16, fetch)
    IN  /\ scope.at = "before"
        /\ holdings' = pf.holdings
        /\ data' = pf.data
        /\ store' = [store EXCEPT !.loaded =
                       [holdings |-> store.holdings,
                        data |-> IF store.has_data THEN store.data
                                 ELSE NoTable]]
        /\ scope' = Scope(IF pf.raised = "none" THEN "body" ELSE "failed",
                          IF pf.asked THEN fetch ELSE "not asked",
                          today, after16, pf.refresh, pf.raised)
        /\ last' = [NoCall EXCEPT !.raised = pf.raised]
        /\ before' = [holdings |-> pf.holdings, data |-> pf.data,
                      call |-> NoCall, prior |-> pf.holdings]
        /\ UNCHANGED <<ops, report, mail, exported>>

\* cli.update: the body of the with statement makes one call.
Update ==
  /\ scope.at = "body"
  /\ ops = 0
  /\ \/ AddShares
     \/ RemoveShares
     \/ SetShares
     \/ AddCash
     \/ RemoveCash

\* The with statement ends: __exit__ runs, whether the body returned or
\* raised, and what the body raised is raised on.
Exit ==
  LET out == exit(store, holdings, data, last.raised)
  IN  /\ scope.at = "body"
      /\ store' = out.store
      /\ scope' = [scope EXCEPT !.at = "exited",
                                !.raised = IF out.suppress THEN "none"
                                           ELSE last.raised]
      /\ UNCHANGED <<holdings, data, last, before, ops, report, mail,
                     exported>>

NextStore ==
  \/ Enter
  \/ Update
  \/ Exit

SpecStore == InitStore /\ [][NextStore]_vars

\* The with statement calls __exit__ when its body has ended: a run that
\* is in the body does not stay there for ever.
SpecStoreFair == SpecStore /\ WF_vars(Exit)

\* ------------------------------------------------------------- ordinals
\* No portfolio is made: ordinal is a function of the module report.
InitOrdinal ==
  /\ holdings = NoTable
  /\ data = NoTable
  /\ last = NoCall
  /\ before = [holdings |-> NoTable, data |-> NoTable,
               call |-> NoCall, prior |-> NoTable]
  /\ ops = 0
  /\ report = NoReport
  /\ mail = NoMail
  /\ exported = NoExport
  /\ store = NoStore
  /\ scope = NoScope

\* ordinal(n) is called; last.ret is the string it returns.
Ordinal ==
  \E n \in 1..MaxOrdinal :
    /\ last' = [op |-> "ordinal", symbol |-> "", quantity |-> n, date |-> 0,
                raised |-> "none", ret |-> ordinal(n)]
    /\ UNCHANGED <<holdings, data, before, ops, report, mail, exported,
                   store, scope>>

NextOrdinal == Ordinal

SpecOrdinal == InitOrdinal /\ [][NextOrdinal]_vars

\* A value table kept from before the last call (a memoized property).
StaleValue == ValueTable(before.holdings, before.data)

\* Portfolio.value as a caller reads it now: computed from the tables as
\* they are, on every read.
value == ValueTable(holdings, data)

\* ------------------------------------------------------------- claims
Mutations ==
  {"add_shares", "remove_shares", "set_shares", "add_cash", "remove_cash"}

\* The last call returned (raised nothing).
Returns(op) == last.op = op /\ last.raised = "none"

\* The call before the last one returned.
Returned2(op) == before.call.op = op /\ before.call.raised = "none"

\* The last two calls had the same symbol and date.
SameSymbolDate ==
  last.symbol = before.call.symbol /\ last.date = before.call.date

\* No add_symbol has changed the ledger: its columns are the first ones.
NoSymbolAdded == holdings.columns = HeldSymbols

\* The floating-point sum of a row over the columns, left to right.
RECURSIVE RowSum(_, _)
RowSum(row, columns) ==
  IF columns = <<>> THEN 0
  ELSE FAdd(RowSum(row, SubSeq(columns, 1, Len(columns) - 1)),
            row[columns[Len(columns)]])

\* C1: after any sequence of add_shares, remove_shares, set_shares,
\* add_cash and remove_cash, on every date of the ledger the value of each
\* symbol is its close price times its holdings as they are now, and Total
\* is the sum of the symbols' values on that date.
C1_ValueIdentity ==
  NoSymbolAdded =>
    \A d \in holdings.index :
      /\ \A s \in Range(holdings.columns) :
           value.cell[d][s] = FMul(data.cell[d][s], holdings.cell[d][s])
      /\ value.cell[d]["Total"] =
           RowSum([s \in Range(holdings.columns) |->
                     FMul(data.cell[d][s], holdings.cell[d][s])],
                  holdings.columns)

\* Two mutations have run, the last changed the ledger and with it a Total.
C1_Witness ==
  /\ NoSymbolAdded
  /\ last.op \in Mutations /\ last.raised = "none"
  /\ before.call.op \in Mutations
  /\ \E d \in holdings.index :
       value.cell[d]["Total"] # StaleValue.cell[d]["Total"]

\* C2: add_shares(s, q, d) that returns has added q to the holdings of s on
\* every date of the ledger from d on; 10 shares with 5 added are 15.
C2_AddSharesForward ==
  Returns("add_shares") =>
    \A d \in holdings.index :
      d >= last.date =>
        /\ holdings.cell[d][last.symbol] =
             FAdd(before.holdings.cell[d][last.symbol], last.quantity)
        /\ (before.holdings.cell[d][last.symbol] = Num(10)
              /\ last.quantity = Num(5))
             => holdings.cell[d][last.symbol] = Num(15)

\* 5 shares added to 10 on a date with a date before it and one after it.
C2_Witness ==
  /\ Returns("add_shares")
  /\ last.quantity = Num(5)
  /\ \E d0, d1 \in holdings.index :
       /\ d0 < last.date /\ last.date < d1
       /\ before.holdings.cell[d1][last.symbol] = Num(10)
       /\ holdings.cell[d1][last.symbol] = Num(15)
       /\ holdings.cell[d0][last.symbol] = Num(10)

\* The last two calls were add_shares(s, q, d), then remove_shares(s, q, d),
\* and both returned.
AddThenRemove ==
  /\ Returns("remove_shares") /\ Returned2("add_shares")
  /\ SameSymbolDate /\ last.quantity = before.call.quantity

Max(a, b) == IF a >= b THEN a ELSE b

\* C3 as claimed: add_shares(s, q, d) followed by remove_shares(s, q, d)
\* leaves the holdings of s on every date from d on equal to what they
\* were before the two calls.
C3_ExactInverse ==
  AddThenRemove =>
    \A d \in holdings.index :
      d >= last.date =>
        holdings.cell[d][last.symbol] = before.prior.cell[d][last.symbol]

\* C3, amended: the holdings of s on a date from d on are back at their
\* value h exactly when the sum h + q was a float (the add did not round),
\* and in every case within rounding of it: no further from h than
\* 3 * 2^-FloatBits times the larger of |h| and |h + q|.
C3_InverseUpToRounding ==
  AddThenRemove =>
    \A d \in holdings.index :
      d >= last.date =>
        LET h0 == before.prior.cell[d][last.symbol]
            h1 == before.holdings.cell[d][last.symbol]
            h2 == holdings.cell[d][last.symbol]
        IN  IF h0 = NaN THEN h2 = NaN
            ELSE /\ h2 # NaN
                 /\ h1 = h0 + last.quantity => h2 = h0
                 /\ Abs(h2 - h0) * Pow2(FloatBits)
                      <= 3 * Max(Abs(h0), Abs(h0 + last.quantity))

\* Shares added and removed again on a date with a date after it, the
\* holdings back at what they were.
C3_Witness ==
  /\ AddThenRemove
  /\ \E d \in holdings.index :
       /\ d > last.date
       /\ before.holdings.cell[d][last.symbol]
            # before.prior.cell[d][last.symbol]
       /\ holdings.cell[d][last.symbol] = before.prior.cell[d][last.symbol]

\* C4: set_shares(s, q, d) that returns has made the holdings of s equal q
\* on every date of the ledger from d on, whatever they were; made twice
\* it leaves the ledger as made once.
C4_SetSharesForward ==
  Returns("set_shares") =>
    /\ \A d \in holdings.index :
         d >= last.date => holdings.cell[d][last.symbol] = last.quantity
    /\ (Returned2("set_shares") /\ SameSymbolDate
          /\ last.quantity = before.call.quantity)
         => holdings = before.holdings

\* set_shares after a mutation of the same symbol that had left different
\* quantities on two of the dates it sets.
C4_Witness ==
  /\ Returns("set_shares")
  /\ before.call.op \in Mutations /\ before.call.symbol = last.symbol
  /\ \E d1, d2 \in holdings.index :
       /\ last.date <= d1 /\ d1 < d2
       /\ before.holdings.cell[d1][last.symbol]
            # before.holdings.cell[d2][last.symbol]
       /\ before.holdings.cell[d2][last.symbol] # last.quantity

\* The close of a symbol on the last price date at or before date, in the
\* prices the last call began with.
LookupClose(symbol, date) ==
  LET at == {d \in before.data.index : d <= date}
  IN  before.data.cell[CHOOSE d \in at : \A e \in at : e <= d][symbol]

\* C5: add_cash(s, cash, d) that returns has added, and remove_cash that
\* returns has subtracted, cash / p on every date of the ledger from d on,
\* p the close of s looked up for d.
C5_CashMutation ==
  /\ Returns("add_cash") =>
       \A d \in holdings.index :
         d >= last.date =>
           holdings.cell[d][last.symbol] =
             FAdd(before.holdings.cell[d][last.symbol],
                  FDiv(last.quantity, LookupClose(last.symbol, last.date)))
  /\ Returns("remove_cash") =>
       \A d \in holdings.index :
         d >= last.date =>
           holdings.cell[d][last.symbol] =
             FSub(before.holdings.cell[d][last.symbol],
                  FDiv(last.quantity, LookupClose(last.symbol, last.date)))

\* add_cash on a date that is not a price date and is not the last date of
\* the ledger: the price is the one of an earlier date.
C5_Witness ==
  /\ Returns("add_cash")
  /\ last.date \notin data.index
  /\ \E d \in holdings.index :
       /\ d > last.date
       /\ holdings.cell[d][last.symbol] # before.holdings.cell[d][last.symbol]

\* C6: each of the five mutations called with a symbol that is no column
\* of the ledger raises KeyError and leaves holdings and prices as they
\* were.
C6_UnknownSymbol ==
  (last.op \in Mutations
     /\ last.symbol \notin Range(before.holdings.columns))
    => /\ last.raised = "KeyError"
       /\ holdings = before.holdings
       /\ data = before.data

\* remove_cash of a symbol that has prices and is no column of the ledger.
C6_Witness ==
  /\ last.op = "remove_cash"
  /\ last.symbol \notin Range(before.holdings.columns)
  /\ last.symbol \in Range(before.data.columns)
  /\ last.date \in before.holdings.index
  /\ last.raised = "KeyError"

\* C7 as claimed: each of the five mutations called with a quantity <= 0
\* (for a symbol and a date of the ledger, so that nothing else is wrong
\* with the call) raises ValueError and leaves the holdings as they were.
C7_InvalidQuantity ==
  (last.op \in Mutations
     /\ last.symbol \in Range(before.holdings.columns)
     /\ last.date \in before.holdings.index
     /\ last.quantity <= 0)
    => /\ last.raised = "ValueError"
       /\ holdings = before.holdings

\* C8: add_symbol of a symbol that is a column of the ledger raises
\* KeyError and leaves holdings and prices as they were.
C8_DuplicateSymbol ==
  (last.op = "add_symbol"
     /\ last.symbol \in Range(before.holdings.columns))
    => /\ last.raised = "KeyError"
       /\ holdings = before.holdings
       /\ data = before.data

\* add_symbol of the symbol that the add_symbol before it introduced.
C8_Witness ==
  /\ last.op = "add_symbol" /\ Returned2("add_symbol")
  /\ last.symbol = before.call.symbol
  /\ last.symbol \notin Range(HeldSymbols)
  /\ last.raised = "KeyError"

\* C9: add_symbol(s, q, d) of a symbol that is no column of the ledger adds
\* the column s, q on every date from d on, and leaves the dates and the
\* holdings of every other symbol as they were.
C9_AddSymbol ==
  (last.op = "add_symbol"
     /\ last.symbol \notin Range(before.holdings.columns))
    => /\ holdings.index = before.holdings.index
       /\ holdings.columns = Append(before.holdings.columns, last.symbol)
       /\ \A d \in holdings.index :
            /\ d >= last.date => holdings.cell[d][last.symbol] = last.quantity
            /\ \A s \in Range(before.holdings.columns) :
                 holdings.cell[d][s] = before.holdings.cell[d][s]

\* A symbol added on a date with a date before it and a date after it.
C9_Witness ==
  /\ Returns("add_symbol")
  /\ last.symbol \notin Range(before.holdings.columns)
  /\ \E d0, d1 \in holdings.index :
       /\ d0 < last.date /\ last.date < d1
       /\ holdings.cell[d1][last.symbol] = last.quantity

\* The last two calls were to_cash(s, n, d) with n > 0, then to_shares of
\* what it returned for the same s and d.
CashThenShares ==
  /\ Returns("to_shares") /\ Returned2("to_cash")
  /\ SameSymbolDate /\ last.quantity = before.call.ret
  /\ before.call.quantity > 0

\* C10 as claimed: to_shares(s, to_cash(s, n, d), d) equals n.
C10_RoundTripExact ==
  CashThenShares => last.ret = before.call.quantity

\* C10, amended: to_shares(s, to_cash(s, n, d), d) equals n when the
\* product n * p was a float (to_cash did not round), and is in every case
\* within rounding of n: no further from it than 3 * 2^-FloatBits * n.
C10_RoundTripUpToRounding ==
  CashThenShares =>
    LET n == before.call.quantity
        p == LookupClose(last.symbol, last.date)
    IN  /\ n * p = before.call.ret * Pow2(FracBits) => last.ret = n
        /\ Abs(last.ret - n) * Pow2(FloatBits) <= 3 * n

\* A round trip through a product that is a float, for a date that is not
\* a price date.
C10_Witness ==
  /\ CashThenShares
  /\ last.date \notin data.index
  /\ before.call.quantity * LookupClose(last.symbol, last.date)
       = before.call.ret * Pow2(FracBits)
  /\ last.ret = before.call.quantity

\* C11: to_shares(s, cash, d) returns cash / p and to_cash(s, n, d) returns
\* n * p, where for both p is the close of s on the last price date at or
\* before d, which is d itself when d is a price date.
C11_LookupPrice ==
  LET p == LookupClose(last.symbol, last.date)
  IN  /\ Returns("to_shares") => last.ret = FDiv(last.quantity, p)
      /\ Returns("to_cash") => last.ret = FMul(last.quantity, p)
      /\ ((Returns("to_shares") \/ Returns("to_cash"))
            /\ last.date \in before.data.index)
           => p = before.data.cell[last.date][last.symbol]

\* to_cash and then to_shares for the same symbol and a date that is not a
\* price date and has price dates on both sides of it.
C11_Witness ==
  /\ Returns("to_shares") /\ Returned2("to_cash") /\ SameSymbolDate
  /\ last.date \notin data.index
  /\ \E d0, d1 \in data.index : d0 < last.date /\ last.date < d1

\* The Total column of the value table, and the dates of the value table
\* within the calendar year of the report's date.
Totals == Column(value, "Total")
YearOfReport ==
  {d \in value.index :
     YearStart(report.date) <= d /\ d <= YearEnd(report.date)}
Distinct(index, series) ==
  \A d, e \in index : d # e => series[d] # series[e]

\* C12: the ranking window of a report is the dates of the axis within the
\* calendar year of the report's date, from the later of the year's first
\* day and the first date of the axis to the earlier of the year's last
\* day and the last date of the axis; when its N Totals are pairwise
\* distinct, the value rank of the date is its place among them sorted
\* greatest first, a number of 1..N, and the one the report shows.
C12_ValueRank ==
  report.raised # "not made" =>
    LET N == Cardinality(YearOfReport)
        place == 1 + Cardinality({e \in YearOfReport :
                                    Totals[e] > Totals[report.date]})
    IN  /\ Window(value.index, report.date).dates = YearOfReport
        /\ report.overall.start =
             Max(YearStart(report.date), SetMin(value.index))
        /\ report.overall.end =
             0 - Max(0 - YearEnd(report.date), 0 - SetMax(value.index))
        /\ Distinct(YearOfReport, Totals) =>
             /\ place \in 1..N
             /\ RankOf(value.index, Totals, report.date) = place
             /\ report.raised = "none" =>
                  /\ report.overall.days = N
                  /\ report.overall.rank_value =
                       (IF place = 1 THEN <<>> ELSE ordinal(place))

\* A report of a date that is second of three distinct Totals, in a year
\* that the axis runs beyond.
C12_Witness ==
  /\ report.raised = "none"
  /\ Cardinality(YearOfReport) = 3
  /\ YearOfReport # value.index
  /\ Distinct(YearOfReport, Totals)
  /\ RankOf(value.index, Totals, report.date) = 2

\* A column of the value table on the dates of the report's year, and its
\* day-over-day change there (NaN on the first of them).
InYear(s) == [d \in YearOfReport |-> value.cell[d][s]]
ChangeInYear(s) ==
  [d \in YearOfReport |->
    IF Prev(YearOfReport, d) < 0 THEN NaN
    ELSE FSub(value.cell[d][s], value.cell[Prev(YearOfReport, d)][s])]

\* The ranks a report shows, each with the series it ranks: of the Total
\* and of every symbol the report keeps, by value and by change.
Reported ==
  {"Total"} \cup {s \in Range(holdings.columns) : ~report.symbols[s].deleted}
Entry(s) == IF s = "Total" THEN report.overall ELSE report.symbols[s].data
RankTexts ==
  {<<Entry(s).rank_value, InYear(s)>> : s \in Reported}
    \cup {<<Entry(s).rank_change, ChangeInYear(s)>> : s \in Reported}

\* Twice the average of the places that the values equal to the one of the
\* report's date occupy, the greatest value first; and how many they are.
Ties(series) ==
  Cardinality({e \in YearOfReport : series[e] = series[report.date]})
TwiceAverage(series) ==
  2 * Cardinality({e \in YearOfReport :
                     series[e] # NaN /\ series[e] > series[report.date]})
    + Ties(series) + 1

\* The text that shows the rank n: nothing for the first.
Shows(text, n) == text = (IF n = 1 THEN <<>> ELSE ordinal(n))

\* C13 as claimed: when the value (or the change) of the report's date
\* ties with that of other dates of the window, the rank shown is the
\* average of the tied places rounded to the nearest integer (a half going
\* up, or to the even integer).
C13_RoundedRank ==
  report.raised = "none" =>
    \A t \in RankTexts :
      Ties(t[2]) >= 2 =>
        \/ Shows(t[1], (TwiceAverage(t[2]) + 1) \div 2)
        \/ Shows(t[1], RoundHalfEven(TwiceAverage(t[2]), 2))

\* C13, amended: the rank shown is the average of the tied places cut to
\* its integer part (places 1 and 2 tied show as the first).
C13_TruncatedRank ==
  report.raised = "none" =>
    \A t \in RankTexts :
      Ties(t[2]) >= 2 => Shows(t[1], TwiceAverage(t[2]) \div 2)

\* A report whose Total ties with one other date for places 1 and 2: the
\* average is 1.5 and the rank shown is the first.
C13_Witness ==
  /\ report.raised = "none"
  /\ Ties(InYear("Total")) = 2
  /\ TwiceAverage(InYear("Total")) = 3
  /\ report.overall.rank_value = <<>>

\* The letters after the digits of an ordinal number, and its HTML form.
Letters(n) ==
  IF (n \div 10) % 10 = 1 THEN <<"t", "h">>
  ELSE CASE n % 10 = 1 -> <<"s", "t">>
         [] n % 10 = 2 -> <<"n", "d">>
         [] n % 10 = 3 -> <<"r", "d">>
         [] OTHER -> <<"t", "h">>
OrdinalText(n) == Decimal(n) \o Letters(n)
OrdinalHtml(n) == Decimal(n) \o <<"<sup>">> \o Letters(n) \o <<"</sup>">>

\* A rank text and its HTML form are empty exactly when the rank is 1, and
\* are the ordinal of the rank when it is 2 or more.
TextOfRank(text, html, rank) ==
  /\ rank >= 1
  /\ (text = <<>>) <=> (rank = 1)
  /\ (html = <<>>) <=> (rank = 1)
  /\ rank >= 2 => text = OrdinalText(rank) /\ html = OrdinalHtml(rank)

\* C14: in the overall data and in the data of each symbol of a report,
\* rank_value and rank_change and their HTML forms are empty exactly when
\* the integer rank is 1, and the ordinal text of the rank (2nd, 3rd, ...)
\* for every rank of 2 or more.
C14_FirstSuppressed ==
  report.raised = "none" =>
    \A s \in Reported :
      /\ TextOfRank(Entry(s).rank_value, Entry(s).rank_value_html,
                    RankOf(value.index, Column(value, s), report.date))
      /\ TextOfRank(Entry(s).rank_change, Entry(s).rank_change_html,
                    RankOfChange(value.index, Column(value, s), report.date))

\* A report whose Total is the first by value and the second by change.
C14_Witness ==
  /\ report.raised = "none"
  /\ report.overall.rank_value = <<>>
  /\ report.overall.rank_value_html = <<>>
  /\ report.overall.rank_change = <<"2", "n", "d">>
  /\ report.overall.rank_change_html = <<"2", "<sup>", "n", "d", "</sup>">>

\* The date of the axis before the report's date (0 - 1 when it is the
\* first), and the portfolio of 10 shares at 100, 101, 99, 102, 105.
PrevDate == Prev(value.index, report.date)
TenSharesExample ==
  /\ data = TestFrame(DateRangeB(1, 5), <<"TEST">>,
              [TEST |-> <<100, 101, 99, 102, 105>>])
  /\ holdings = TestFrame(DateRangeB(1, 5), <<"TEST">>,
                  [TEST |-> <<10, 10, 10, 10, 10>>])

\* C15 as claimed: for a report date d with a date p before it on the axis
\* the difference is Total[d] - Total[p] and pct_difference is
\* difference / Total[p] * 100; in the example of 10 shares the difference
\* on the third date is -20.
C15_DailyChange ==
  (report.raised = "none" /\ PrevDate >= 0) =>
    LET difference == FSub(Totals[report.date], Totals[PrevDate])
    IN  /\ report.overall.difference = difference
        /\ Totals[PrevDate] # 0 =>
             report.overall.pct_difference =
               FMul(FDiv(difference, Totals[PrevDate]), Num(100))
        /\ (TenSharesExample /\ Place(value.index, report.date) = 3) =>
             report.overall.difference = Num(0 - 20)

\* C15, amended: pct_difference is (Total[d] / Total[p] - 1) * 100, the
\* quotient taken first; the rest as claimed.
C15_DailyChangeOfRatio ==
  (report.raised = "none" /\ PrevDate >= 0) =>
    /\ report.overall.difference =
         FSub(Totals[report.date], Totals[PrevDate])
    /\ Totals[PrevDate] # 0 =>
         report.overall.pct_difference =
           FMul(FSub(FDiv(Totals[report.date], Totals[PrevDate]), Num(1)),
                Num(100))
    /\ (TenSharesExample /\ Place(value.index, report.date) = 3) =>
         report.overall.difference = Num(0 - 20)

\* The report of the third date of the example: 990 - 1010.
C15_Witness ==
  /\ report.raised = "none"
  /\ TenSharesExample
  /\ Place(value.index, report.date) = 3
  /\ Totals[report.date] = Num(990) /\ Totals[PrevDate] = Num(1010)
  /\ report.overall.difference = Num(0 - 20)

\* C16 as claimed: making the report of a date with no date before it (the
\* first date of the axis, or the first date of the ranking window) does
\* not fail; the difference and the change rank are those of "no prior
\* data" (NaN, no rank text) and the rest of the data is produced.
C16_NoPriorData ==
  (report.raised # "not made" /\ Prev(YearOfReport, report.date) < 0) =>
    /\ report.raised = "none"
    /\ report.overall.rank_change = <<>>
    /\ PrevDate < 0 => report.overall.difference = NaN
    /\ report.overall.total = Totals[report.date]

\* C19 as claimed: Report.email of a report whose configuration is absent
\* or lacks the email section or one of its options returns False, raises
\* nothing and sends nothing, whether or not the date asked for was a date
\* of the price index.
C19_EmailWithoutConfig ==
  (mail.raised # "not called" /\ report.config # "complete") =>
    /\ mail.raised = "none"
    /\ mail.ret = FALSE
    /\ ~mail.sent

\* C20 as claimed: export to a .csv file writes the holdings less exactly
\* the rows that equal the row just before them.
C20_ExportCsv ==
  exported.file = ".csv" =>
    LET kept == {d \in holdings.index :
                   \/ Prev(holdings.index, d) < 0
                   \/ holdings.cell[d] # holdings.cell[Prev(holdings.index, d)]}
    IN  /\ exported.holdings.index = kept
        /\ \A d \in kept : exported.holdings.cell[d] = holdings.cell[d]

\* The tables in memory are those that were read from the file.
AsLoaded == holdings = store.loaded.holdings /\ data = store.loaded.data

\* C17 as claimed: when the with statement has ended, the file was written
\* to only if the holdings or the prices in memory differ from what was
\* loaded from it; when both are equal to it, nothing was written.
C17_SkipUnchanged ==
  scope.at = "exited" => (store.writes = 0 <=> AsLoaded)

\* C17, amended: when the with statement has ended, both tables have been
\* written to the file, whether or not they differ from what was loaded.
C17_AlwaysWritten ==
  scope.at = "exited" =>
    /\ store.writes = 1
    /\ store.has_data
    /\ store.holdings = holdings
    /\ store.data = data

\* A run that changed nothing: the tables are as loaded, and were written.
C17_Witness ==
  /\ scope.at = "exited"
  /\ AsLoaded
  /\ ops = 0
  /\ store.writes = 1

\* C18 as claimed: when the provider fails the constructor that asks it,
\* the constructor completes with the prices of the file and raises
\* nothing.
C18_FetchFailure ==
  scope.fetch \notin {"not asked", "data"} =>
    /\ scope.at # "failed"
    /\ last.raised = "none"
    /\ store.has_data => data = store.loaded.data

\* C21: for every n >= 1, ordinal(n) is the decimal digits of n followed by
\* "th" when the tens digit of n is 1, and otherwise by "st", "nd" or "rd"
\* when the last digit is 1, 2 or 3 and by "th" for any other last digit.
C21_Ordinal ==
  last.op = "ordinal" =>
    LET n == last.quantity
        tens == (n \div 10) % 10
        units == n % 10
        suffix == SubSeq(last.ret, Len(last.ret) - 1, Len(last.ret))
    IN  /\ SubSeq(last.ret, 1, Len(last.ret) - 2) = Decimal(n)
        /\ tens = 1 => suffix = <<"t", "h">>
        /\ (tens # 1 /\ units = 1) => suffix = <<"s", "t">>
        /\ (tens # 1 /\ units = 2) => suffix = <<"n", "d">>
        /\ (tens # 1 /\ units = 3) => suffix = <<"r", "d">>
        /\ (tens # 1 /\ units \notin {1, 2, 3}) => suffix = <<"t", "h">>
        /\ last.ret = OrdinalText(n)

\* ordinal(111): a tens digit of 1 beyond the first hundred.
C21_Witness ==
  /\ last.op = "ordinal"
  /\ last.quantity = 111
  /\ last.ret = <<"1", "1", "1", "t", "h">>
\* C22 as claimed: the holdings and the prices have the same dates in every
\* state after construction and after any sequence of mutations, add_symbol
\* among them; so a call that finds the two sets of dates equal leaves
\* them equal.
C22_SameAxis ==
  before.holdings.index = before.data.index =>
    holdings.index = data.index
\* The holdings read from the file, and the row of them that forward fill
\* gives a date: the row of their last date at or before it (0 - 1 when
\* there is none).
InputLedger == store.loaded.holdings
FilledFrom(d) == GetLocFfill(InputLedger.index, d)

\* C23 as claimed: immediately after construction every holdings date is a
\* price date, each row kept holds for every symbol the input holdings of
\* the last input date at or before it, and a price date is absent only if
\* its forward-filled row has a quantity for no symbol.
C23_Alignment ==
  (scope.at = "body" /\ ops = 0) =>
    /\ holdings.index \subseteq data.index
    /\ \A d \in holdings.index :
         /\ FilledFrom(d) >= 0
         /\ holdings.cell[d] = InputLedger.cell[FilledFrom(d)]
    /\ \A d \in data.index \ holdings.index :
         \/ FilledFrom(d) < 0
         \/ \A s \in Range(InputLedger.columns) :
              InputLedger.cell[FilledFrom(d)][s] = NaN
\* The prices that the constructor found in the file, and the three
\* conditions of the claim on them and on the clock it read.
Cached == store.loaded.data
Stale == SetMax(Cached.index) < scope.today - 1
BusinessDay == (scope.today - 1) % 3 # 0

\* C24 as claimed: the constructor fetches the prices again only if the
\* cached prices end before yesterday, the day checked is a business day
\* and the clock is past 16:00, all three; when one of them is false the
\* cached prices are kept.
C24_RefreshGate ==
  (scope.at \in {"body", "exited", "failed"} /\ Cached.index # {}) =>
    LET gate == Stale /\ BusinessDay /\ scope.after16
    IN  /\ scope.refresh => gate
        /\ (~gate /\ scope.at # "failed") => data = Cached
\* The place of the report's date on the axis of the value table, the
\* symbols that the table of the report shows, and the sum of their values
\* on a date (a value that is NaN counts for nothing).
PlaceOfReport == Place(value.index, report.date)
Shown == SelectSeq(report.table.columns, LAMBDA s : s # "Total")
SumShown(d) ==
  RowSum([s \in Range(Shown) |->
            IF value.cell[d][s] = NaN THEN 0 ELSE value.cell[d][s]], Shown)

\* Each row of the table holds the values of the symbols shown, and as
\* Total their sum.
TotalsOfShown ==
  \A d \in report.table.index :
    /\ \A s \in Range(Shown) : report.table.cell[d][s] = value.cell[d][s]
    /\ report.table.cell[d]["Total"] = SumShown(d)

\* C25 as claimed: the table of a report for the date at place i of the
\* axis holds exactly the dates at the places i-4 through i+6 that the axis
\* has, and its Total on each is the sum of the symbols shown.
C25_TableThroughSixth ==
  report.raised = "none" =>
    /\ report.table.index =
         {d \in value.index :
            /\ PlaceOfReport - 4 <= Place(value.index, d)
            /\ Place(value.index, d) <= PlaceOfReport + 6}
    /\ TotalsOfShown

\* C25, amended: the table holds exactly the dates at the places i-4
\* through i+5 that the axis has (at most ten dates: four before the
\* report's, the report's, five after it), and its Total on each is the
\* sum of the symbols shown.
C25_TableThroughFifth ==
  report.raised = "none" =>
    /\ report.table.index =
         {d \in value.index :
            /\ PlaceOfReport - 4 <= Place(value.index, d)
            /\ Place(value.index, d) <= PlaceOfReport + 5}
    /\ Cardinality(report.table.index) <= 10
    /\ TotalsOfShown

\* The report of the sixth of twelve dates: its table holds the ten dates
\* from the second to the eleventh, and neither the first nor the twelfth.
C25_Witness ==
  /\ report.raised = "none"
  /\ Cardinality(value.index) = 12
  /\ PlaceOfReport = 6
  /\ Cardinality(report.table.index) = 10
  /\ SetMin(value.index) \notin report.table.index
  /\ SetMax(value.index) \notin report.table.index
\* The holdings of the week that ends on the report's date, and the dates
\* of it after its first.
Week == Slice(holdings, report.periodic.start, report.periodic.end)
AfterFirst == {d \in Week.index : Prev(Week.index, d) >= 0}
ChangeOn(d, s) ==
  FSub(Week.cell[d][s], Week.cell[Prev(Week.index, d)][s])

\* C26 as claimed: the periodic report lists for each symbol every date of
\* the window after the first whose share count differs from the count
\* on the date before it, with the signed change, and lists nothing for a
\* date on which no share count changed.
C26_ShareChanges ==
  report.periodic.made =>
    /\ report.periodic.changes =
         {<<d, s, ChangeOn(d, s)>> :
            d \in AfterFirst, s \in Range(holdings.columns)}
           \ {<<d, s, 0>> : d \in AfterFirst, s \in Range(holdings.columns)}
    /\ \A d \in report.periodic.dates :
         \E s \in Range(holdings.columns) : ChangeOn(d, s) # 0
\* C27 as claimed: when add_shares, remove_shares, set_shares, add_cash or
\* remove_cash raises, whatever the symbol, the quantity and the date (a
\* date that is not on the axis or lies after its last date too), the
\* holdings are exactly as they were before the call.
C27_ErrorLeavesLedger ==
  (last.op \in Mutations /\ last.raised # "none") =>
    holdings = before.holdings
\* C28: a successful add_shares, remove_shares, set_shares, add_cash or
\* remove_cash on (s, q, d) leaves as they were the holdings of every
\* symbol other than s on every date, the holdings of s on every date
\* before d, the symbols, the dates and the prices.
C28_Frame ==
  (last.op \in Mutations /\ last.raised = "none") =>
    /\ holdings.columns = before.holdings.columns
    /\ holdings.index = before.holdings.index
    /\ data = before.data
    /\ \A d \in holdings.index, s \in Range(holdings.columns) :
         (s # last.symbol \/ d < last.date) =>
           holdings.cell[d][s] = before.holdings.cell[d][s]

\* A successful mutation from a date that is not the first: the holdings
\* of its symbol changed from that date on, and there is a date before it.
C28_Witness ==
  /\ last.op \in Mutations /\ last.raised = "none"
  /\ \E d \in holdings.index : d < last.date
  /\ \E s \in Range(holdings.columns) : s # last.symbol
  /\ \A d \in holdings.index :
       d >= last.date =>
         holdings.cell[d][last.symbol] # before.holdings.cell[d][last.symbol]
\* C29: in "with Portfolio() as pf:" the release happens after the body
\* has ended and writes the holdings and the prices that are then in
\* memory to the file, also when the body ended by raising; what the body
\* raised is then raised to the caller of the with statement.
C29_ReleaseAlways ==
  /\ [](scope.at = "exited" =>
          /\ store.has_data
          /\ store.holdings = holdings
          /\ store.data = data
          /\ store.writes >= 1
          /\ scope.raised = last.raised)
  /\ (scope.at = "body" ~> scope.at = "exited")

\* A run whose one call raised after it had changed the holdings: they
\* were written as changed, and the error went on to the caller.
C29_Witness ==
  /\ scope.at = "exited"
  /\ last.op \in Mutations
  /\ last.raised = "KeyError" /\ scope.raised = "KeyError"
  /\ holdings # before.holdings
  /\ store.holdings = holdings
\* The first date from d on that has a quantity recorded for s (0 - 1
\* when there is none), and the dates and symbols that have both a
\* holdings cell and a price.
NextRecorded(s, d) ==
  LET later == {e \in holdings.index : e >= d /\ holdings.cell[e][s] # NaN}
  IN  IF later = {} THEN 0 - 1 ELSE SetMin(later)
Priced == holdings.index \cap data.index
PricedSymbols == Range(holdings.columns) \cap Range(data.columns)

\* C30: on a date where the holdings of a symbol are missing, its value is
\* its price on that date times the next quantity recorded for it; so
\* after add_symbol(s, q, d) the value of s on a date before d is
\* price[s][date] * q.
C30_BackwardFill ==
  /\ \A d \in Priced, s \in PricedSymbols :
       (holdings.cell[d][s] = NaN /\ NextRecorded(s, d) >= 0) =>
         value.cell[d][s] =
           FMul(data.cell[d][s], holdings.cell[NextRecorded(s, d)][s])
  /\ (Returns("add_symbol") /\ last.symbol \in PricedSymbols
        /\ \E e \in holdings.index : e >= last.date) =>
       \A d \in Priced :
         d < last.date =>
           value.cell[d][last.symbol] =
             FMul(data.cell[d][last.symbol], last.quantity)

\* A symbol added from a date that is not the first, with its prices
\* fetched: on a date before, it has no holdings and a value that is not 0.
C30_Witness ==
  /\ Returns("add_symbol")
  /\ last.symbol \in PricedSymbols
  /\ \E d \in Priced :
       /\ d < last.date
       /\ holdings.cell[d][last.symbol] = NaN
       /\ value.cell[d][last.symbol] =
            FMul(data.cell[d][last.symbol], last.quantity)
       /\ value.cell[d][last.symbol] > 0
====
